---- MODULE Spec2Model ----
(***************************************************************************)
(* Model of src/src/undup.rs: the content-hashing tree walk                *)
(* (find_and_hash_files) and the hash-matching engine                      *)
(* (find_matching_files), run against a small filesystem.                  *)
(*                                                                         *)
(* A path is a sequence of components; an absolute path starts with "/".   *)
(* The filesystem is a table from absolute paths to nodes.  It does not    *)
(* change during a behaviour ("unchanged trees"); the order in which       *)
(* read_dir yields entries and in which a HashMap is iterated is not       *)
(* specified by the code and is chosen afresh at every enumeration.        *)
(***************************************************************************)
EXTENDS Integers, Sequences, FiniteSets, TLC

VARIABLES
    fs,             \* the filesystem: absolute path -> node
    source_dir,     \* argument source_dir: sequence of root paths
    target_dir,     \* argument target_dir: sequence of root paths
    source_hashes,  \* DiscoveredFiles of the source side: hash -> Seq(FileType)
    target_hashes,  \* DiscoveredFiles of the target side
    side,           \* which of the two root loops is running
    idx,            \* index of the next root of that loop
    pc,             \* "roots" | "walk" | "match" | "done"
    queue,          \* find_and_hash_files: pending directories
    visited,        \* ghost: directories read_dir was called on, in order, this root
    todo,           \* hash buckets of target_hashes not yet iterated
    matches,        \* the Vec<MatchingFile> being built
    infos,          \* hashes named by the log::info! diagnostic
    result,         \* "none" while running, then "Ok" | "Err" | "Panic"
    failedOp,       \* the filesystem operation that failed, or "none"
    run,            \* 1 for the first call, 2 for the re-run on the same trees
    prev,           \* outcome of the first call, kept for the re-run
    hashing_cache,  \* cli.rs: Arguments::hashing_cache, "NoCache" | "Sqlite"
    hasher,         \* cli.rs: main's hasher, "unset" | "HashingNoCache" | "panic"
    returned        \* what the last HashingBackend::hash_file call returned

vars == << fs, source_dir, target_dir, source_hashes, target_hashes, side, idx,
           pc, queue, visited, todo, matches, infos, result, failedOp, run, prev,
           hashing_cache, hasher, returned >>

\* the state of cli.rs's main, which undup.rs does not touch
cliVars == << hashing_cache, hasher, returned >>

----------------------------------------------------------------------------
(* Bounds of the model *)

\* at most this many roots on each side of a call
MaxRoots == 2

\* file contents are 1..NumContents
NumContents == 2

Contents == 1..NumContents

----------------------------------------------------------------------------
(* Paths *)

S  == << "/", "s" >>
SA == << "/", "s", "a" >>
SB == << "/", "s", "b" >>
T  == << "/", "t" >>
TA == << "/", "t", "a" >>
TB == << "/", "t", "b" >>
TD == << "/", "t", "d" >>
TDA == << "/", "t", "d", "a" >>
\* a path that never exists
SX == << "/", "s", "x" >>
\* a relative link target: one component, no leading "/"
RelA == << "a" >>

FsPaths == { S, SA, SB, T, TA, TB, TD, TDA }

\* the process's working directory, against which relative paths resolve
Cwd == << "/" >>

IsAbs(p) == Len(p) > 0 /\ p[1] = "/"

Parent(p) == SubSeq(p, 1, Len(p) - 1)

\* Path::join: an absolute argument replaces the base
join(base, p) == IF IsAbs(p) THEN p ELSE base \o p

----------------------------------------------------------------------------
(* Filesystem nodes *)

Absent      == [kind |-> "absent",  content |-> 0, target |-> << >>]
DirNode     == [kind |-> "dir",     content |-> 0, target |-> << >>]
OtherNode   == [kind |-> "other",   content |-> 0, target |-> << >>]
FileNode(c) == [kind |-> "file",    content |-> c, target |-> << >>]
LinkNode(t) == [kind |-> "symlink", content |-> 0, target |-> t]

NoPath == << >>

NodeAt(p) == IF p \in DOMAIN fs THEN fs[p] ELSE Absent

\* Kernel path resolution of an absolute path: every intermediate component
\* is followed through symlinks; the last one only when followLast.  NoPath
\* when a component is missing, is not a directory, or the links loop.
RECURSIVE Canon(_, _, _)
Canon(p, followLast, fuel) ==
    IF fuel = 0 THEN NoPath
    ELSE IF Len(p) <= 1 THEN p
    ELSE LET par == Canon(Parent(p), TRUE, fuel)
         IN IF par = NoPath THEN NoPath
            ELSE IF Len(par) > 1 /\ NodeAt(par).kind # "dir" THEN NoPath
            ELSE LET q == Append(par, p[Len(p)])
                     n == NodeAt(q)
                 IN IF n.kind = "absent" THEN NoPath
                    ELSE IF n.kind = "symlink" /\ followLast
                         THEN Canon(join(par, n.target), TRUE, fuel - 1)
                         ELSE q

Fuel == Cardinality(FsPaths) + 1

\* what a path argument names: relative paths resolve against the cwd
Resolve(p, followLast) == Canon(join(Cwd, p), followLast, Fuel)

\* Path::metadata / fs::metadata: follows symlinks.  "Err" when it fails.
metadata(p) ==
    LET q == Resolve(p, TRUE)
    IN IF q = NoPath THEN "Err" ELSE NodeAt(q).kind

\* Variant of entry_metadata: fs::metadata(entry.path()), which follows the
\* entry when it is a symlink
entry_metadataFollows(p) ==
    LET q == Resolve(p, TRUE)
    IN IF q = NoPath THEN "Err" ELSE NodeAt(q).kind

\* DirEntry::metadata: does not follow the entry itself
entry_metadata(p) ==
    LET q == Resolve(p, FALSE)
    IN IF q = NoPath THEN "Err" ELSE NodeAt(q).kind

\* names of the entries of directory p
read_dir(p) ==
    LET q == Resolve(p, TRUE)
    IN { c[Len(c)] : c \in { x \in DOMAIN fs :
                                /\ Len(x) = Len(q) + 1
                                /\ Parent(x) = q
                                /\ fs[x].kind # "absent" } }

\* fs::read_link: the raw link target, not resolved
read_link(p) == NodeAt(Resolve(p, FALSE)).target

----------------------------------------------------------------------------
(* Hashing *)

\* SHA-256 rendered in upper-case hex: injective on contents
Sha256(c) == << "sha256", c >>

\* hash_file: File::open follows symlinks; opening succeeds on a directory
\* but the first read fails.  "Err" on any failure.
hash_file(p) ==
    LET q == Resolve(p, TRUE)
    IN IF q = NoPath THEN "Err"
       ELSE IF NodeAt(q).kind # "file" THEN "Err"
       ELSE Sha256(NodeAt(q).content)

\* no HashingBackend::hash_file call has returned since the files last changed
NoReturn == [path |-> << >>, hash |-> "none"]

----------------------------------------------------------------------------
(* FileType and DiscoveredFiles *)

File(path) == [variant |-> "File", path |-> path]
Symlink(source, target) == [variant |-> "Symlink", source |-> source, target |-> target]

IsFile(f) == f.variant = "File"
IsSymlink(f) == f.variant = "Symlink"

src_path(f) == IF IsFile(f) THEN f.path ELSE f.source

EmptyIndex == << >>

\* Variant of add_hash: `insert(hash, vec![path])`, the bucket is replaced
\* instead of pushed onto
add_hashReplace(files, hash, path) ==
    [h \in DOMAIN files \cup {hash} |->
        IF h = hash THEN << path >> ELSE files[h]]

\* DiscoveredFiles::add_hash: push onto the bucket, created when missing
add_hash(files, hash, path) ==
    IF hash \in DOMAIN files
    THEN [files EXCEPT ![hash] = Append(@, path)]
    ELSE [h \in DOMAIN files \cup {hash} |->
            IF h = hash THEN << path >> ELSE files[h]]

----------------------------------------------------------------------------
(* Environment faults: a filesystem call may fail for a reason the tree    *)
(* does not show (EACCES, EIO, an entry replaced under the walk).          *)

\* "none", or the kind of call that fails when it is next made
Faults == { "none", "metadata", "read", "read_link" }

\* all orders in which read_dir may yield the entries
Orders(names) ==
    { o \in [1..Cardinality(names) -> names] :
        \A i, j \in 1..Cardinality(names) : i # j => o[i] # o[j] }

----------------------------------------------------------------------------
(* find_and_hash_files *)

WalkOk(disc, q)  == [status |-> "Ok", op |-> "none", disc |-> disc, queue |-> q]
WalkErr(op)      == [status |-> "Err", op |-> op, disc |-> EmptyIndex, queue |-> << >>]
WalkPanic(op)    == [status |-> "Panic", op |-> op, disc |-> EmptyIndex, queue |-> << >>]

\* the body of `for entry in read_dir(dir)?`, entries taken in order ord
RECURSIVE WalkEntries(_, _, _, _, _)
WalkEntries(disc, q, dir, ord, flt) ==
    IF ord = << >> THEN WalkOk(disc, q)
    ELSE
    LET name == Head(ord)
        path == Append(dir, name)
        ft   == IF flt = "metadata" THEN "Err" ELSE entry_metadata(path)
        hash == IF flt = "read" THEN "Err" ELSE hash_file(path)
    IN CASE ft = "Err" -> WalkErr("metadata")
         [] ft = "dir" -> WalkEntries(disc, Append(q, path), dir, Tail(ord), flt)
         [] ft = "file" ->
               IF hash = "Err" THEN WalkErr("read")
               ELSE WalkEntries(add_hash(disc, hash, File(path)), q, dir, Tail(ord), flt)
         [] ft = "symlink" ->
               IF hash = "Err" THEN WalkErr("read")
               ELSE IF flt = "read_link" THEN WalkPanic("read_link")
               ELSE WalkEntries(add_hash(disc, hash, Symlink(path, read_link(path))),
                                q, dir, Tail(ord), flt)
         [] OTHER -> WalkEntries(disc, q, dir, Tail(ord), flt)

Roots == IF side = "source" THEN source_dir ELSE target_dir

Disc == IF side = "source" THEN source_hashes ELSE target_hashes

SetDisc(d) ==
    IF side = "source"
    THEN source_hashes' = d /\ UNCHANGED target_hashes
    ELSE target_hashes' = d /\ UNCHANGED source_hashes

\* Variant of Abort: the error is logged and dropped (`let _ =` with no `?`),
\* the root loop goes on with what was indexed so far
AbortSwallowed(op) ==
    /\ pc' = "roots"
    /\ idx' = idx + 1
    /\ failedOp' = op
    /\ queue' = << >>
    /\ visited' = << >>
    /\ UNCHANGED << fs, source_dir, target_dir, source_hashes, target_hashes, side,
                    todo, matches, infos, result, run, prev, cliVars >>

\* `?` on an io::Error: the call returns Err, its locals are dropped
Abort(op) ==
    /\ pc' = "done"
    /\ result' = "Err"
    /\ failedOp' = op
    /\ source_hashes' = EmptyIndex
    /\ target_hashes' = EmptyIndex
    /\ queue' = << >>
    /\ visited' = << >>
    /\ UNCHANGED << fs, source_dir, target_dir, side, idx, todo, matches, infos, run, prev, cliVars >>

\* .expect() on an Err: the thread panics, nothing is returned
Panic(op) ==
    /\ pc' = "done"
    /\ result' = "Panic"
    /\ failedOp' = op
    /\ source_hashes' = EmptyIndex
    /\ target_hashes' = EmptyIndex
    /\ queue' = << >>
    /\ visited' = << >>
    /\ UNCHANGED << fs, source_dir, target_dir, side, idx, todo, matches, infos, run, prev, cliVars >>

\* Variant of BeginRoot: the index is created inside the root loop
\* (`DiscoveredFiles::default()` per root), a directory root starts from an
\* empty index
BeginRootFreshIndex ==
    /\ pc = "roots"
    /\ idx <= Len(Roots)
    /\ \E flt \in Faults \ {"read_link"} :
        LET dir  == Roots[idx]
            md   == IF flt = "metadata" THEN "Err" ELSE metadata(dir)
            hash == IF flt = "read" THEN "Err" ELSE hash_file(dir)
        IN IF md = "Err" THEN Abort("metadata")
           ELSE IF md # "dir"
           THEN IF hash = "Err" THEN Abort("read")
                ELSE /\ SetDisc(add_hash(Disc, hash, File(dir)))
                     /\ idx' = idx + 1
                     /\ UNCHANGED << fs, source_dir, target_dir, side, pc, queue, visited,
                                     todo, matches, infos, result, failedOp, run, prev, cliVars >>
           ELSE /\ queue' = << dir >>
                /\ visited' = << >>
                /\ pc' = "walk"
                /\ SetDisc(EmptyIndex)
                /\ UNCHANGED << fs, source_dir, target_dir,
                                side, idx, todo, matches, infos, result, failedOp, run, prev, cliVars >>

\* find_and_hash_files up to the while loop: the root's metadata, and a
\* root that is not a directory hashed as a single File
BeginRoot ==
    /\ pc = "roots"
    /\ idx <= Len(Roots)
    /\ \E flt \in Faults \ {"read_link"} :
        LET dir  == Roots[idx]
            md   == IF flt = "metadata" THEN "Err" ELSE metadata(dir)
            hash == IF flt = "read" THEN "Err" ELSE hash_file(dir)
        IN IF md = "Err" THEN Abort("metadata")
           ELSE IF md # "dir"
           THEN IF hash = "Err" THEN Abort("read")
                ELSE /\ SetDisc(add_hash(Disc, hash, File(dir)))
                     /\ idx' = idx + 1
                     /\ UNCHANGED << fs, source_dir, target_dir, side, pc, queue, visited,
                                     todo, matches, infos, result, failedOp, run, prev, cliVars >>
           ELSE /\ queue' = << dir >>
                /\ visited' = << >>
                /\ pc' = "walk"
                /\ UNCHANGED << fs, source_dir, target_dir, source_hashes, target_hashes,
                                side, idx, todo, matches, infos, result, failedOp, run, prev, cliVars >>

\* one iteration of `while let Some(dir) = queue.pop_back()`
WalkDir ==
    /\ pc = "walk"
    /\ queue # << >>
    /\ LET dir  == queue[Len(queue)]
           rest == SubSeq(queue, 1, Len(queue) - 1)
       IN \/ Abort("read_dir")
          \/ \E ord \in Orders(read_dir(dir)), flt \in Faults :
               LET r == WalkEntries(Disc, rest, dir, ord, flt)
               IN CASE r.status = "Err" -> Abort(r.op)
                    [] r.status = "Panic" -> Panic(r.op)
                    [] OTHER ->
                        /\ SetDisc(r.disc)
                        /\ queue' = r.queue
                        /\ visited' = Append(visited, dir)
                        /\ UNCHANGED << fs, source_dir, target_dir, side, idx, pc, todo,
                                        matches, infos, result, failedOp, run, prev, cliVars >>

\* the queue is empty: find_and_hash_files returns Ok(()), next root
EndRoot ==
    /\ pc = "walk"
    /\ queue = << >>
    /\ pc' = "roots"
    /\ idx' = idx + 1
    /\ UNCHANGED << fs, source_dir, target_dir, source_hashes, target_hashes, side,
                    queue, visited, todo, matches, infos, result, failedOp, run, prev, cliVars >>

\* `for dir in source_dir` is over: on to `for dir in target_dir`
SourceRootsDone ==
    /\ pc = "roots"
    /\ side = "source"
    /\ idx > Len(source_dir)
    /\ side' = "target"
    /\ idx' = 1
    /\ UNCHANGED << fs, source_dir, target_dir, source_hashes, target_hashes, pc,
                    queue, visited, todo, matches, infos, result, failedOp, run, prev, cliVars >>

\* `for dir in target_dir` is over: target_hashes.files.into_iter()
TargetRootsDone ==
    /\ pc = "roots"
    /\ side = "target"
    /\ idx > Len(target_dir)
    /\ pc' = "match"
    /\ todo' = DOMAIN target_hashes
    /\ UNCHANGED << fs, source_dir, target_dir, source_hashes, target_hashes, side, idx,
                    queue, visited, matches, infos, result, failedOp, run, prev, cliVars >>

----------------------------------------------------------------------------
(* find_matching_files: the matching loop *)

MatchingFile(src, dest) == [src_path |-> src, dest_path |-> dest]

\* position of the first Symlink entry of a bucket, 0 when it has none:
\* Iterator::find over the bucket in order
FirstSymlink(bucket) ==
    IF \E i \in 1..Len(bucket) : IsSymlink(bucket[i])
    THEN CHOOSE i \in 1..Len(bucket) :
            /\ IsSymlink(bucket[i])
            /\ \A j \in 1..(i - 1) : ~IsSymlink(bucket[j])
    ELSE 0

\* Variant of ChooseSource: the last entry of the source bucket, not the first
ChooseSourceLast(hash, bucket, sources) ==
    LET s == FirstSymlink(bucket)
    IN IF s # 0
       THEN IF Len(bucket) = 1
            THEN [kind |-> "skip", path |-> << >>]
            ELSE [kind |-> "source", path |-> bucket[s].target]
       ELSE IF hash \in DOMAIN sources
            THEN [kind |-> "source", path |-> src_path(sources[hash][Len(sources[hash])])]
            ELSE [kind |-> "unmatched", path |-> << >>]

\* Variant of ChooseSource: the two branches swapped, the source index is
\* consulted before the bucket's symlinks
ChooseSourceIndexFirst(hash, bucket, sources) ==
    LET s == FirstSymlink(bucket)
    IN IF hash \in DOMAIN sources
       THEN [kind |-> "source", path |-> src_path(sources[hash][1])]
       ELSE IF s # 0
            THEN IF Len(bucket) = 1
                 THEN [kind |-> "skip", path |-> << >>]
                 ELSE [kind |-> "source", path |-> bucket[s].target]
            ELSE [kind |-> "unmatched", path |-> << >>]

\* Variant of ChooseSource: the symlink branch is missing
ChooseSourceIgnoresSymlinks(hash, bucket, sources) ==
    IF hash \in DOMAIN sources
    THEN [kind |-> "source", path |-> src_path(sources[hash][1])]
    ELSE [kind |-> "unmatched", path |-> << >>]

\* Variant of ChooseSource: the bucket is skipped when its first entry is a
\* symlink, instead of when a symlink is its only entry
ChooseSourceSkipsLeadingSymlink(hash, bucket, sources) ==
    LET s == FirstSymlink(bucket)
    IN IF s # 0
       THEN IF s = 1
            THEN [kind |-> "skip", path |-> << >>]
            ELSE [kind |-> "source", path |-> bucket[s].target]
       ELSE IF hash \in DOMAIN sources
            THEN [kind |-> "source", path |-> src_path(sources[hash][1])]
            ELSE [kind |-> "unmatched", path |-> << >>]

\* the if / else-if / else that binds source_path; "skip" and "unmatched"
\* are the two `continue`s
ChooseSource(hash, bucket, sources) ==
    LET s == FirstSymlink(bucket)
    IN IF s # 0
       THEN IF Len(bucket) = 1
            THEN [kind |-> "skip", path |-> << >>]
            ELSE [kind |-> "source", path |-> bucket[s].target]
       ELSE IF hash \in DOMAIN sources
            THEN [kind |-> "source", path |-> src_path(sources[hash][1])]
            ELSE [kind |-> "unmatched", path |-> << >>]

\* `for f in target.1.iter().filter(File)`: one match per File entry
RECURSIVE EmitMatches(_, _)
EmitMatches(source_path, bucket) ==
    IF bucket = << >> THEN << >>
    ELSE IF IsFile(Head(bucket))
         THEN << MatchingFile(source_path, src_path(Head(bucket))) >>
                 \o EmitMatches(source_path, Tail(bucket))
         ELSE EmitMatches(source_path, Tail(bucket))

\* Variant of MatchBucket: an engine that does not tell symlinks from files,
\* every entry of a bucket found in the source index becomes a dest_path
MatchBucketEveryEntry ==
    /\ pc = "match"
    /\ \E hash \in todo :
        LET bucket == target_hashes[hash]
        IN /\ todo' = todo \ {hash}
           /\ matches' = IF hash \in DOMAIN source_hashes
                         THEN matches \o
                              [i \in 1..Len(bucket) |->
                                  MatchingFile(src_path(source_hashes[hash][1]),
                                               src_path(bucket[i]))]
                         ELSE matches
           /\ infos' = IF hash \in DOMAIN source_hashes THEN infos ELSE infos \cup {hash}
    /\ UNCHANGED << fs, source_dir, target_dir, source_hashes, target_hashes, side, idx,
                    pc, queue, visited, result, failedOp, run, prev, cliVars >>

\* one iteration of `for target in target_hashes.files.into_iter()`;
\* a HashMap yields its buckets in an unspecified order
MatchBucket ==
    /\ pc = "match"
    /\ \E hash \in todo :
        LET bucket == target_hashes[hash]
            c == ChooseSource(hash, bucket, source_hashes)
        IN /\ todo' = todo \ {hash}
           /\ matches' = IF c.kind = "source"
                         THEN matches \o EmitMatches(c.path, bucket)
                         ELSE matches
           /\ infos' = IF c.kind = "unmatched" THEN infos \cup {hash} ELSE infos
    /\ UNCHANGED << fs, source_dir, target_dir, source_hashes, target_hashes, side, idx,
                    pc, queue, visited, result, failedOp, run, prev, cliVars >>

\* Ok(matches)
ReturnOk ==
    /\ pc = "match"
    /\ todo = {}
    /\ pc' = "done"
    /\ result' = "Ok"
    /\ UNCHANGED << fs, source_dir, target_dir, source_hashes, target_hashes, side, idx,
                    queue, visited, todo, matches, infos, failedOp, run, prev, cliVars >>

----------------------------------------------------------------------------
(* A caller: one call, then the same call again on the unchanged trees *)

Pairs(ms) == { ms[i] : i \in 1..Len(ms) }

Rerun ==
    /\ pc = "done"
    /\ run = 1
    /\ run' = 2
    /\ prev' = [result |-> result, pairs |-> Pairs(matches)]
    /\ source_hashes' = EmptyIndex
    /\ target_hashes' = EmptyIndex
    /\ side' = "source"
    /\ idx' = 1
    /\ pc' = "roots"
    /\ queue' = << >>
    /\ visited' = << >>
    /\ todo' = {}
    /\ matches' = << >>
    /\ infos' = {}
    /\ result' = "none"
    /\ failedOp' = "none"
    /\ UNCHANGED << fs, source_dir, target_dir, cliVars >>

----------------------------------------------------------------------------
(* Initial states: the trees and the arguments of the call *)

\* sequences over cands of length at most n
RECURSIVE SeqsUpTo(_, _)
SeqsUpTo(cands, n) ==
    IF n = 0 THEN { << >> }
    ELSE LET shorter == SeqsUpTo(cands, n - 1)
         IN shorter \cup { Append(q, c) : q \in shorter, c \in cands }

SBNodes == { Absent, LinkNode(SA) }
TANodes == { FileNode(c) : c \in Contents } \cup { OtherNode, LinkNode(SA) }
TBNodes == { FileNode(1), LinkNode(SA), LinkNode(TA), LinkNode(RelA), LinkNode(SX), LinkNode(T) }
TDANodes == { FileNode(c) : c \in Contents }

\* /s holds a and maybe b; /t holds a, b and the directory d with d/a
MakeFs(sb, ta, tb, tda) ==
    [p \in FsPaths |->
        CASE p = S   -> DirNode
          [] p = SA  -> FileNode(1)
          [] p = SB  -> sb
          [] p = T   -> DirNode
          [] p = TA  -> ta
          [] p = TB  -> tb
          [] p = TD  -> DirNode
          [] p = TDA -> tda]

NoRepeat(q) == \A i, j \in 1..Len(q) : i # j => q[i] # q[j]

\* the source side may name the target tree too (overlapping roots)
SourceRoots == { q \in SeqsUpTo({S, T}, MaxRoots) : NoRepeat(q) }

\* a target root may be a directory, a file, a symlink, or missing, and
\* may be given twice
TargetRoots == SeqsUpTo({T, TB, SX}, MaxRoots)

Init ==
    /\ \E sb \in SBNodes, ta \in TANodes, tb \in TBNodes, tda \in TDANodes :
          fs = MakeFs(sb, ta, tb, tda)
    /\ source_dir \in SourceRoots
    /\ target_dir \in TargetRoots
    /\ source_hashes = EmptyIndex
    /\ target_hashes = EmptyIndex
    /\ side = "source"
    /\ idx = 1
    /\ pc = "roots"
    /\ queue = << >>
    /\ visited = << >>
    /\ todo = {}
    /\ matches = << >>
    /\ infos = {}
    /\ result = "none"
    /\ failedOp = "none"
    /\ run = 1
    /\ prev = [result |-> "none", pairs |-> {}]
    /\ hashing_cache = "NoCache"
    /\ hasher = "unset"
    /\ returned = NoReturn

Next ==
    \/ BeginRoot
    \/ WalkDir
    \/ EndRoot
    \/ SourceRootsDone
    \/ TargetRootsDone
    \/ MatchBucket
    \/ ReturnOk

Spec == Init /\ [][Next]_vars

\* the same call made a second time once the first has returned
NextRerun == Next \/ Rerun

\* the re-run is followed for calls with one target root that exists
InitRerun == Init /\ Len(target_dir) = 1 /\ target_dir[1] # SX

SpecRerun == InitRerun /\ [][NextRerun]_vars

\* the program is one thread of sequential code: a step that can be taken
\* is taken
SpecLive == Init /\ [][Next]_vars /\ WF_vars(Next)

----------------------------------------------------------------------------
(* A caller with several roots a side: one call with the subdirectories of *)
(* /s as source roots and those of /t as target roots, then one call with  *)
(* the combined roots /s and /t, which contain the same files              *)

SD  == << "/", "s", "d" >>
SDA == << "/", "s", "d", "a" >>
SE  == << "/", "s", "e" >>
SEA == << "/", "s", "e", "a" >>
TE  == << "/", "t", "e" >>
TEA == << "/", "t", "e", "a" >>

MultiPaths == { S, SD, SDA, SE, SEA, T, TD, TDA, TE, TEA }

SEANodes == { FileNode(c) : c \in Contents }
TEANodes == { FileNode(c) : c \in Contents } \cup { LinkNode(SDA) }

\* /s holds the directories d and e, /t holds the directories d and e,
\* each with one entry a
MakeFsMulti(sea, tda, tea) ==
    [p \in MultiPaths |->
        CASE p = SDA -> FileNode(1)
          [] p = SEA -> sea
          [] p = TDA -> tda
          [] p = TEA -> tea
          [] OTHER   -> DirNode]

\* the two roots of a side, in either order
BothOrders(a, b) == { << a, b >>, << b, a >> }

InitMulti ==
    /\ \E sea \in SEANodes, tda \in TDANodes, tea \in TEANodes :
          fs = MakeFsMulti(sea, tda, tea)
    /\ source_dir \in BothOrders(SD, SE)
    /\ target_dir \in BothOrders(TD, TE)
    /\ source_hashes = EmptyIndex
    /\ target_hashes = EmptyIndex
    /\ side = "source"
    /\ idx = 1
    /\ pc = "roots"
    /\ queue = << >>
    /\ visited = << >>
    /\ todo = {}
    /\ matches = << >>
    /\ infos = {}
    /\ result = "none"
    /\ failedOp = "none"
    /\ run = 1
    /\ prev = [result |-> "none", pairs |-> {}]
    /\ hashing_cache = "NoCache"
    /\ hasher = "unset"
    /\ returned = NoReturn

\* the second call: one combined source root against one combined target root
RerunCombined ==
    /\ pc = "done"
    /\ run = 1
    /\ run' = 2
    /\ prev' = [result |-> result, pairs |-> Pairs(matches)]
    /\ source_dir' = << S >>
    /\ target_dir' = << T >>
    /\ source_hashes' = EmptyIndex
    /\ target_hashes' = EmptyIndex
    /\ side' = "source"
    /\ idx' = 1
    /\ pc' = "roots"
    /\ queue' = << >>
    /\ visited' = << >>
    /\ todo' = {}
    /\ matches' = << >>
    /\ infos' = {}
    /\ result' = "none"
    /\ failedOp' = "none"
    /\ UNCHANGED << fs, cliVars >>

NextMulti == Next \/ RerunCombined

SpecMulti == InitMulti /\ [][NextMulti]_vars

----------------------------------------------------------------------------
(* cli.rs: main picks the hashing backend from --hashing-cache, then the   *)
(* backend is asked for hashes while the files change between the calls    *)

HashingCacheOptions == { "NoCache", "Sqlite" }

\* default_value_t of Arguments::hashing_cache
DefaultHashingCache == "Sqlite"

\* the state of the engine of undup.rs, which main's hasher does not touch
engineVars == << source_dir, target_dir, source_hashes, target_hashes, side, idx,
                 pc, queue, visited, todo, matches, infos, result, failedOp, run, prev >>

\* `let hasher = match args.hashing_cache`: the Sqlite arm is todo!(), which
\* panics with "not yet implemented"
SelectBackend ==
    /\ hasher = "unset"
    /\ hasher' = IF hashing_cache = "NoCache" THEN "HashingNoCache" ELSE "panic"
    /\ UNCHANGED << fs, engineVars, hashing_cache, returned >>

\* the paths the backend is asked about: files, symlinks, a missing path
HashedPaths == { SA, TA, TB, TDA, SX }

\* HashingNoCache::hash_file: super::hash_file(path), nothing is remembered
HashCall ==
    /\ hasher = "HashingNoCache"
    /\ \E path \in HashedPaths :
          returned' = [path |-> path, hash |-> hash_file(path)]
    /\ UNCHANGED << fs, engineVars, hashing_cache, hasher >>

\* the environment rewrites a regular file with another content
ModifyFile ==
    /\ \E p \in { q \in DOMAIN fs : fs[q].kind = "file" } :
          \E c \in Contents \ { fs[p].content } :
              fs' = [fs EXCEPT ![p] = FileNode(c)]
    /\ returned' = NoReturn
    /\ UNCHANGED << engineVars, hashing_cache, hasher >>

InitHashing ==
    /\ \E sb \in SBNodes, ta \in TANodes, tb \in TBNodes, tda \in TDANodes :
          fs = MakeFs(sb, ta, tb, tda)
    /\ hashing_cache \in HashingCacheOptions
    /\ hasher = "unset"
    /\ returned = NoReturn
    /\ source_dir = << >>
    /\ target_dir = << >>
    /\ source_hashes = EmptyIndex
    /\ target_hashes = EmptyIndex
    /\ side = "source"
    /\ idx = 1
    /\ pc = "roots"
    /\ queue = << >>
    /\ visited = << >>
    /\ todo = {}
    /\ matches = << >>
    /\ infos = {}
    /\ result = "none"
    /\ failedOp = "none"
    /\ run = 1
    /\ prev = [result |-> "none", pairs |-> {}]

NextHashing ==
    \/ SelectBackend
    \/ HashCall
    \/ ModifyFile

SpecHashing == InitHashing /\ [][NextHashing]_vars

----------------------------------------------------------------------------
(* Properties *)

\* the entries of an index, whatever their bucket
Entries(files) == UNION { { files[h][i] : i \in 1..Len(files[h]) } : h \in DOMAIN files }

MatchSet == { matches[i] : i \in 1..Len(matches) }

\* the matches emitted for the target bucket of a hash: a dest_path is a
\* target path that was hashed to it
MatchesOf(hash) == SelectSeq(matches, LAMBDA m : hash_file(m.dest_path) = hash)

\* C1: in a successful call every dest_path is the path of a File entry of
\* the target index and is not the path of any Symlink entry of it.
C1_DestIsFileNeverSymlink ==
    result = "Ok" =>
        \A m \in MatchSet :
            /\ File(m.dest_path) \in Entries(target_hashes)
            /\ \A e \in Entries(target_hashes) :
                  IsSymlink(e) => e.source # m.dest_path

\* C2: no emitted match has src_path equal to dest_path.
C2_SrcDiffersFromDest ==
    \A m \in MatchSet : m.src_path # m.dest_path

\* a root that cannot be opened, or a symlink under a walked /t whose
\* content cannot be read: the call must meet an I/O failure
AllRoots == { source_dir[i] : i \in 1..Len(source_dir) }
                \cup { target_dir[i] : i \in 1..Len(target_dir) }

BrokenTree ==
    \/ \E r \in AllRoots : metadata(r) = "Err" \/ (metadata(r) # "dir" /\ hash_file(r) = "Err")
    \/ T \in AllRoots /\ \E n \in read_dir(T) :
            entry_metadata(Append(T, n)) = "symlink" /\ hash_file(Append(T, n)) = "Err"

\* C3: when a directory enumeration, a metadata read or a file read fails,
\* the call is over with an Err and no match; a tree with a missing root or
\* a dangling symlink never gives Ok; Ok is never returned after a failure.
C3_FailureAbortsWithoutMatches ==
    /\ failedOp \in {"read_dir", "metadata", "read"} =>
            pc = "done" /\ result = "Err" /\ matches = << >>
    /\ result = "Ok" => failedOp = "none" /\ ~BrokenTree
    /\ result # "Ok" /\ pc = "done" => matches = << >>

\* C3 witness: the source side was walked, then a read failed on the target
\* side, and the call returned Err
C3_Witness ==
    /\ pc = "done" /\ result = "Err" /\ failedOp = "read"
    /\ source_dir # << >> /\ side = "target"
    /\ BrokenTree

\* C4: the call never ends in a panic.
C4_NeverPanics == result # "Panic"

HasSymlink(bucket) == \E i \in 1..Len(bucket) : bucket[i].variant = "Symlink"

\* the path an index entry was found at
FoundAt(e) == IF e.variant = "File" THEN e.path ELSE e.source

\* C5: a target bucket without symlink gets, when the source index has a
\* bucket for its hash, exactly one match per entry, in bucket order, each
\* with the path of the first entry of that source bucket as src_path; and
\* no match at all when the source index has no such bucket.
C5_PlainBucketMatchesFirstSource ==
    result = "Ok" =>
        \A h \in DOMAIN target_hashes :
            LET b == target_hashes[h]
            IN ~HasSymlink(b) =>
                IF h \in DOMAIN source_hashes
                THEN MatchesOf(h) =
                        [i \in 1..Len(b) |->
                            [src_path |-> FoundAt(source_hashes[h][1]),
                             dest_path |-> b[i].path]]
                ELSE MatchesOf(h) = << >>

\* C5 witness: a symlink-free target bucket of two files matched against a
\* source bucket of two entries, next to a target bucket with no source
C5_Witness ==
    /\ result = "Ok"
    /\ \E h \in DOMAIN target_hashes :
          /\ ~HasSymlink(target_hashes[h])
          /\ Len(target_hashes[h]) >= 2
          /\ h \in DOMAIN source_hashes
          /\ Len(source_hashes[h]) >= 2
          /\ Len(MatchesOf(h)) >= 2
    /\ \E h \in DOMAIN target_hashes :
          ~HasSymlink(target_hashes[h]) /\ h \notin DOMAIN source_hashes

\* C6: every match of a target bucket that holds a symlink and more than
\* one entry has the recorded target of the bucket's first symlink as
\* src_path, whether or not the source index has a bucket for the hash.
C6_SymlinkTargetTakesPrecedence ==
    result = "Ok" =>
        \A h \in DOMAIN target_hashes :
            LET b == target_hashes[h]
            IN HasSymlink(b) /\ Len(b) > 1 =>
                \E i \in 1..Len(b) :
                    /\ b[i].variant = "Symlink"
                    /\ \A j \in 1..(i - 1) : b[j].variant # "Symlink"
                    /\ \A k \in 1..Len(MatchesOf(h)) :
                            MatchesOf(h)[k].src_path = b[i].target

\* C6 witness: such a bucket with two symlinks of different targets and a
\* file, a source bucket for the same hash, and a match that does not use it
C6_Witness ==
    /\ result = "Ok"
    /\ \E h \in DOMAIN target_hashes \cap DOMAIN source_hashes :
          LET b == target_hashes[h]
          IN /\ \E i, j \in 1..Len(b) :
                    /\ b[i].variant = "Symlink" /\ b[j].variant = "Symlink"
                    /\ b[i].target # b[j].target
             /\ MatchesOf(h) # << >>
             /\ MatchesOf(h)[1].src_path # FoundAt(source_hashes[h][1])

\* C7: a target bucket whose only entry is a symlink gets no match.
C7_LoneSymlinkNoMatch ==
    result = "Ok" =>
        \A h \in DOMAIN target_hashes :
            LET b == target_hashes[h]
            IN Len(b) = 1 /\ b[1].variant = "Symlink" => MatchesOf(h) = << >>

\* C7 witness: a lone-symlink target bucket whose hash the source index has
C7_Witness ==
    /\ result = "Ok"
    /\ \E h \in DOMAIN target_hashes \cap DOMAIN source_hashes :
          Len(target_hashes[h]) = 1 /\ target_hashes[h][1].variant = "Symlink"

\* C8: every src_path names something that can be read and whose content
\* hash equals that of the match's dest_path.
C8_SrcExistsWithSameContent ==
    result = "Ok" =>
        \A m \in MatchSet :
            /\ hash_file(m.src_path) # "Err"
            /\ hash_file(m.src_path) = hash_file(m.dest_path)

Candidates(hash) ==
    LET b == target_hashes[hash]
    IN IF HasSymlink(b)
       THEN { b[i].target : i \in { k \in 1..Len(b) : b[k].variant = "Symlink" } }
       ELSE IF hash \in DOMAIN source_hashes
            THEN { FoundAt(source_hashes[hash][i]) : i \in 1..Len(source_hashes[hash]) }
            ELSE {}

BothOk == run = 2 /\ result = "Ok" /\ prev.result = "Ok"

\* C10 as stated in the specification: a second successful call on the unchanged trees returns
\* the same set of (src_path, dest_path) pairs as the first.
C10_RerunSamePairs ==
    BothOk => MatchSet = prev.pairs

\* C10 amended: a second successful call on the unchanged trees returns the
\* same set of dest_paths as the first, and the same src_path for every
\* dest_path whose bucket has a single candidate source.
C10_RerunSameDestsAndForcedSources ==
    BothOk =>
        /\ { m.dest_path : m \in MatchSet } = { m.dest_path : m \in prev.pairs }
        /\ \A m \in MatchSet :
              Cardinality(Candidates(hash_file(m.dest_path))) = 1 => m \in prev.pairs

\* C10 witness: the second call returned matches, some from a bucket with
\* one candidate and some from a bucket with several
C10_Witness ==
    /\ BothOk
    /\ \E m \in MatchSet : Cardinality(Candidates(hash_file(m.dest_path))) = 1
    /\ \E m \in MatchSet : Cardinality(Candidates(hash_file(m.dest_path))) > 1

\* both calls returned Ok, the second one made with the combined roots
CombinedOk == BothOk /\ source_dir = << S >> /\ target_dir = << T >>

\* C11 as stated in the specification: the call with the combined roots
\* returns the same (src_path, dest_path) pairs as the call with the several
\* roots.
C11_CombinedSamePairs ==
    CombinedOk => MatchSet = prev.pairs

\* C11 amended: the call with the combined roots returns the same set of
\* dest_paths as the call with the several roots, and the same src_path for
\* every dest_path whose bucket has a single candidate source.
C11_CombinedSameDestsAndForcedSources ==
    CombinedOk =>
        /\ { m.dest_path : m \in MatchSet } = { m.dest_path : m \in prev.pairs }
        /\ \A m \in MatchSet :
              Cardinality(Candidates(hash_file(m.dest_path))) = 1 => m \in prev.pairs

\* C11 witness: both calls returned; the call with the several roots matched
\* a target file under /t/d with the source file under /s/e and a target
\* file under /t/e with the source file under /s/d, each the only candidate
C11_Witness ==
    /\ CombinedOk
    /\ MatchingFile(SEA, TDA) \in prev.pairs
    /\ MatchingFile(SDA, TEA) \in prev.pairs
    /\ MatchingFile(SEA, TDA) \in MatchSet
    /\ MatchingFile(SDA, TEA) \in MatchSet


\* what a walk of dir has to index: the files and symlinks of dir and of
\* the real subdirectories below it
RECURSIVE TreeEntries(_)
TreeEntries(dir) ==
    UNION { LET path == Append(dir, name)
                kind == entry_metadata(path)
            IN CASE kind = "file"    -> { File(path) }
                 [] kind = "symlink" -> { Symlink(path, read_link(path)) }
                 [] kind = "dir"     -> TreeEntries(path)
                 [] OTHER            -> {}
            : name \in read_dir(dir) }

\* the positions (bucket, place) at which an index holds entry e
PlacesOf(files, e) ==
    UNION { { << h, i >> : i \in { k \in 1..Len(files[h]) : files[h][k] = e } } :
            h \in DOMAIN files }

\* the first root of the running side was a directory and its traverse has
\* just returned Ok
FirstRootWalked ==
    /\ pc = "roots" /\ idx = 2
    /\ metadata(Roots[1]) = "dir"

\* C12: after the successful traverse of one directory root the index holds
\* no directory, and exactly one entry for every regular file and symlink
\* of the root and of the real subdirectories below it, and nothing else;
\* an entry sits in one bucket only, that of the hash its path reads as.
C12_IndexIsTheTree ==
    FirstRootWalked =>
        /\ Entries(Disc) = TreeEntries(Roots[1])
        /\ \A e \in Entries(Disc) :
              /\ entry_metadata(FoundAt(e)) # "dir"
              /\ IsFile(e) <=> entry_metadata(FoundAt(e)) = "file"
              /\ IsSymlink(e) <=> entry_metadata(FoundAt(e)) = "symlink"
              /\ Cardinality(PlacesOf(Disc, e)) = 1
              /\ \A pl \in PlacesOf(Disc, e) : pl[1] = hash_file(FoundAt(e))

\* C12 witness: /t was walked with its subdirectory; the file below the
\* subdirectory is indexed, and one bucket holds a symlink next to the
\* regular file it points at and a second regular file
C12_Witness ==
    /\ FirstRootWalked
    /\ side = "target" /\ target_dir[1] = T
    /\ Len(visited) = 2
    /\ File(TDA) \in Entries(target_hashes)
    /\ \E h \in DOMAIN target_hashes :
          /\ Len(target_hashes[h]) = 3
          /\ \E i, j \in 1..3 :
                /\ IsSymlink(target_hashes[h][i])
                /\ IsFile(target_hashes[h][j])
                /\ target_hashes[h][i].target = target_hashes[h][j].path


\* C13: whichever option --hashing-cache has, the default included, startup
\* yields a backend, and what its hash_file last returned for a path is the
\* digest of that path's current content.
C13_SelectedBackendHashesCurrentContent ==
    /\ hasher # "panic"
    /\ returned # NoReturn => returned.hash = hash_file(returned.path)


\* p names a directory itself, not a symlink to one
IsRealDir(p) == NodeAt(Resolve(p, FALSE)).kind = "dir"

\* the pending queue holds the root or real subdirectories only, and no
\* directory is pending twice or enumerated twice for one root
WalkSafe ==
    /\ \A i \in 1..Len(queue) :
          /\ queue[i] = Roots[idx] \/ IsRealDir(queue[i])
          /\ \A j \in 1..Len(visited) : visited[j] # queue[i]
    /\ NoRepeat(queue)
    /\ NoRepeat(visited)
    /\ \A j \in 2..Len(visited) : IsRealDir(visited[j])

\* C14: every call ends, with a result or an I/O error; until then only the
\* root and real subdirectories are ever pending, each directory is
\* enumerated at most once per root, and no symlink is descended into.
C14_WalkTerminates == [](WalkSafe) /\ <>(pc = "done")

\* C14 witness: the walk of /t, where b is a symlink back to /t, enumerated
\* /t and its subdirectory d once each and is over with an I/O error
C14_Witness ==
    /\ fs[TB] = LinkNode(T)
    /\ pc = "done" /\ result = "Err" /\ failedOp = "read"
    /\ side = "target" /\ target_dir[idx] = T


\* C15: in a successful call no path is the dest_path of two matches.
C15_DestPathsDistinct ==
    result = "Ok" =>
        \A i, j \in 1..Len(matches) :
            i # j => matches[i].dest_path # matches[j].dest_path


====
